---- MODULE Spec2Model ----
(***************************************************************************)
(* Rural Amenity Gap Analyzer (src/try.py).                                *)
(*                                                                         *)
(* Three specifications over one set of variables:                         *)
(*   SpecClean    clean_coordinate applied to raw cell values;             *)
(*   SpecAnalyze  analyze_amenities applied to a population, a facility    *)
(*                kind and a cleaned facility frame;                       *)
(*   Spec         one Streamlit session: main() run after run.             *)
(*                                                                         *)
(* Values.  A Python value is a record tagged by k:                        *)
(*   [k |-> "None"]                 None                                   *)
(*   [k |-> "nan"]                  float NaN (pandas' missing value)      *)
(*   [k |-> "inf", neg |-> b]       float +inf / -inf                      *)
(*   [k |-> "num", m |-> i, e |-> j] the finite float i * 10^j, normalised *)
(*                                  (i has no trailing zero; 0 is 0*10^0)  *)
(*   [k |-> "str", s |-> chars]     a str, as a sequence of characters     *)
(* Characters are one-character strings; the non-ASCII ones are named by   *)
(* their code point: "U00B0" DEGREE SIGN, "U00AC" NOT SIGN, "U221E"        *)
(* INFINITY.                                                               *)
(***************************************************************************)
EXTENDS Integers, Sequences, FiniteSets, TLC

VARIABLES
    pc,             \* position of the running function / of main()
    coord,          \* clean_coordinate: its argument
    cleaned,        \* clean_coordinate: its return value
    population,     \* st.number_input / analyze_amenities argument
    facility_type,  \* st.selectbox / analyze_amenities argument
    upload,         \* the uploaded file (a parsed table, or unreadable)
    facilities,     \* the frame returned by standardize_facility_data
    analysis,       \* the dict returned by analyze_amenities, or NoResult
    shown,          \* the st.warning/error/success/info messages of the run
    raised          \* the exception raised in the current run, if any

vars == <<pc, coord, cleaned, population, facility_type, upload, facilities,
          analysis, shown, raised>>

----------------------------------------------------------------------------
(* Bounds *)

\* longest text enumerated exhaustively as a clean_coordinate argument
MaxLen == 3
\* most rows in an uploaded table / in a facility frame
MaxRows == 2

----------------------------------------------------------------------------
(* Python values *)

None == [k |-> "None"]
NaN == [k |-> "nan"]
Inf(neg) == [k |-> "inf", neg |-> neg]
Str(s) == [k |-> "str", s |-> s]

RECURSIVE Normalise(_, _)
Normalise(m, e) ==
    IF m = 0 THEN [k |-> "num", m |-> 0, e |-> 0]
    ELSE IF m % 10 = 0 THEN Normalise(m \div 10, e + 1)
    ELSE [k |-> "num", m |-> m, e |-> e]

Num(m, e) == Normalise(m, e)

IsFinite(v) == v.k = "num"

Abs(i) == IF i < 0 THEN -i ELSE i
Max(a, b) == IF a >= b THEN a ELSE b

RECURSIVE Pow10(_)
Pow10(n) == IF n <= 0 THEN 1 ELSE 10 * Pow10(n - 1)

RECURSIVE NumDigits(_)
NumDigits(i) == IF i < 10 THEN 1 ELSE 1 + NumDigits(i \div 10)

----------------------------------------------------------------------------
(* str methods used by clean_coordinate *)

\* str.replace(old, ''): every non-overlapping occurrence, left to right
RECURSIVE Replace(_, _)
Replace(s, old) ==
    IF Len(s) < Len(old) THEN s
    ELSE IF SubSeq(s, 1, Len(old)) = old
         THEN Replace(SubSeq(s, Len(old) + 1, Len(s)), old)
         ELSE <<Head(s)>> \o Replace(Tail(s), old)

RECURSIVE LStrip(_)
LStrip(s) == IF s # <<>> /\ Head(s) = " " THEN LStrip(Tail(s)) ELSE s

RECURSIVE RStrip(_)
RStrip(s) ==
    IF s # <<>> /\ s[Len(s)] = " " THEN RStrip(SubSeq(s, 1, Len(s) - 1)) ELSE s

\* str.strip()
Strip(s) == LStrip(RStrip(s))

\* ' ' in s
HasSpace(s) == \E i \in 1..Len(s) : s[i] = " "

\* s.split()[0] for a stripped s: the characters before the first space
RECURSIVE FirstToken(_)
FirstToken(s) ==
    IF s = <<>> \/ Head(s) = " " THEN <<>> ELSE <<Head(s)>> \o FirstToken(Tail(s))

----------------------------------------------------------------------------
(* float(x) *)

Digits == <<"0", "1", "2", "3", "4", "5", "6", "7", "8", "9">>
IsDigit(c) == \E i \in 1..10 : Digits[i] = c
DigitVal(c) == (CHOOSE i \in 1..10 : Digits[i] = c) - 1
AllDigits(s) == \A i \in 1..Len(s) : IsDigit(s[i])

RECURSIVE DigitsToInt(_)
DigitsToInt(s) ==
    IF s = <<>> THEN 0
    ELSE 10 * DigitsToInt(SubSeq(s, 1, Len(s) - 1)) + DigitVal(s[Len(s)])

Lower(c) ==
    CASE c = "I" -> "i" [] c = "N" -> "n" [] c = "F" -> "f" [] c = "T" -> "t"
      [] c = "Y" -> "y" [] c = "A" -> "a" [] c = "E" -> "e" [] OTHER -> c

LowerAll(s) == [i \in 1..Len(s) |-> Lower(s[i])]

\* the positions of character c in s
Positions(s, c) == {i \in 1..Len(s) : s[i] = c}

IsSign(c) == c = "+" \/ c = "-"

\* the finite or overflowed value of mantissa m (an integer) times 10^e:
\* beyond the range of a double the parse gives inf, below it 0.0
Ranged(neg, m, e) ==
    LET mag == NumDigits(m) - 1 + e IN
    IF m = 0 \/ mag <= -325 THEN Num(0, 0)
    ELSE IF mag >= 309 THEN Inf(neg)
    ELSE Num(IF neg THEN -m ELSE m, e)

\* float(text): Invalid stands for ValueError
Invalid == [k |-> "ValueError"]

ParseUnsigned(neg, t) ==
    LET low == LowerAll(t)
        es == Positions(low, "e")
    IN  IF low = <<"i", "n", "f">>
           \/ low = <<"i", "n", "f", "i", "n", "i", "t", "y">> THEN Inf(neg)
        ELSE IF low = <<"n", "a", "n">> THEN NaN
        ELSE IF Cardinality(es) > 1 THEN Invalid
        ELSE
          LET ePos == IF es = {} THEN Len(t) + 1 ELSE CHOOSE i \in es : TRUE
              mant == SubSeq(t, 1, ePos - 1)
              expo == SubSeq(t, ePos + 1, Len(t))
              dots == Positions(mant, ".")
              dPos == IF dots = {} THEN Len(mant) + 1
                      ELSE CHOOSE i \in dots : \A j \in dots : i <= j
              ip == SubSeq(mant, 1, dPos - 1)
              fp == SubSeq(mant, dPos + 1, Len(mant))
              expNeg == expo # <<>> /\ Head(expo) = "-"
              expDigits == IF expo # <<>> /\ IsSign(Head(expo))
                           THEN Tail(expo) ELSE expo
              mantOk == /\ Cardinality(dots) <= 1
                        /\ AllDigits(ip) /\ AllDigits(fp)
                        /\ Len(ip) + Len(fp) >= 1
              expOk == es = {} \/ (expDigits # <<>> /\ AllDigits(expDigits))
          IN  IF ~(mantOk /\ expOk) THEN Invalid
              ELSE LET x == DigitsToInt(expDigits)
                   IN  Ranged(neg, DigitsToInt(ip \o fp),
                              (IF expNeg THEN -x ELSE x) - Len(fp))

\* float() of a str: surrounding whitespace ignored, one optional sign
ParseFloat(s) ==
    LET t == Strip(s) IN
    IF t = <<>> THEN Invalid
    ELSE IF IsSign(Head(t)) THEN ParseUnsigned(Head(t) = "-", Tail(t))
    ELSE ParseUnsigned(FALSE, t)

\* float(x) for any value: a float is returned as it is
Float(v) ==
    IF v.k = "str" THEN ParseFloat(v.s)
    ELSE IF v.k = "None" THEN [k |-> "TypeError"]
    ELSE v

----------------------------------------------------------------------------
(* clean_coordinate *)

\* pd.isna(x) for a scalar
IsNa(v) == v.k = "None" \/ v.k = "nan"

\* the three literals of line 59, character by character as the file has them
MarkupN == <<"U00AC", "U221E", "N">>
MarkupE == <<"U00AC", "U221E", "E">>
Markup == <<"U00AC", "U221E">>

StripMarkup(s) == Strip(Replace(Replace(Replace(s, MarkupN), MarkupE), Markup))

clean_coordinate(c) ==
    IF IsNa(c) THEN None
    ELSE LET c1 == IF c.k = "str"
                   THEN LET t == StripMarkup(c.s)
                        IN  Str(IF HasSpace(t) THEN FirstToken(t) ELSE t)
                   ELSE c
             f == Float(c1)
         IN  IF f.k \in {"ValueError", "TypeError"} THEN None ELSE f

----------------------------------------------------------------------------
(* SpecClean: clean_coordinate applied to one raw value after another *)

Alphabet == {"1", "2", ".", "-", " ", "U00B0", "U00AC", "U221E", "N", "E"}

RECURSIVE TextsUpTo(_)
TextsUpTo(n) ==
    IF n = 0 THEN {<<>>}
    ELSE LET shorter == TextsUpTo(n - 1)
         IN  shorter \cup {Append(t, c) : t \in shorter, c \in Alphabet}

\* texts as they occur in uploads, beside every short text over Alphabet
Corpus ==
    { <<"1", "2", ".", "3", "4", "U00B0", "N">>,            \* 12.34(deg)N
      <<"1", "2", ".", "3", "4", "U00AC", "U221E", "N">>,   \* as line 59 spells it
      <<"7", "7", ".", "5", "U00B0", "E">>,
      <<"7", "7", ".", "5", "U00AC", "U221E", "E">>,
      <<"1", "2", ".", "3", "4">>,
      <<"1", "2", ".", "3", "4", " ", "7", "7", ".", "5">>,
      <<" ", "1", "2", ".", "3", "4", "U00B0", " ">>,
      <<"i", "n", "v", "a", "l", "i", "d">>,
      <<"i", "n", "f">>,
      <<"-", "I", "n", "f", "i", "n", "i", "t", "y">>,
      <<"n", "a", "n">>,
      <<"1", "e", "9", "9", "9">> }

Texts == Corpus \cup TextsUpTo(MaxLen)

NumericInputs ==
    {Num(0, 0), Num(1234, -2), Num(-775, -1), Num(1, -1), Num(200, 0),
     Inf(FALSE), Inf(TRUE)}

CoordInputs == {None, NaN} \cup NumericInputs \cup {Str(t) : t \in Texts}

NotYet == [k |-> "NotYet"]

\* what the variables of the other specifications hold while one runs
NoResult == [k |-> "NoResult"]
NoFrame == [columns |-> {}, rows |-> <<>>]
NoUpload == [k |-> "NoUpload"]

InitClean ==
    /\ pc = "call"
    /\ coord \in CoordInputs
    /\ cleaned = NotYet
    /\ population = 100
    /\ facility_type = "schools"
    /\ upload = NoUpload
    /\ facilities = NoFrame
    /\ analysis = NoResult
    /\ shown = <<>>
    /\ raised = "none"

CleanCall ==
    /\ pc = "call"
    /\ cleaned' = clean_coordinate(coord)
    /\ pc' = "ret"
    /\ UNCHANGED <<coord, population, facility_type, upload, facilities,
                   analysis, shown, raised>>

NextClean == CleanCall

SpecClean == InitClean /\ [][NextClean]_vars

----------------------------------------------------------------------------
(* GOVERNMENT_STANDARDS and calculate_requirements *)

\* dict.get(key, default); a dict is a function on its keys
Get(d, key, default) == IF key \in DOMAIN d THEN d[key] ELSE default

EmptyDict == [x \in {} |-> 0]

\* A ratio is the exact decimal fraction n / d of the literal; the service
\* radius is in whole km.  icon and color feed only the map and are left out.
GOVERNMENT_STANDARDS ==
    [ schools |->
        [ratio |-> [n |-> 107, d |-> 100000], service_radius_km |-> 5],
      hospitals |->
        [ratio |-> [n |-> 184, d |-> 10000000], service_radius_km |-> 20],
      police_stations |->
        [ratio |-> [n |-> 111, d |-> 10000000], service_radius_km |-> 15],
      parks |->
        [ratio |-> [n |-> 1, d |-> 10000], area_standard |-> 10,
         service_radius_km |-> 2],
      pharmacies |->
        [ratio |-> [n |-> 606, d |-> 1000000], service_radius_km |-> 3] ]

RegisteredKinds == DOMAIN GOVERNMENT_STANDARDS

\* math.ceil(n / d) for n >= 0, d > 0.  The code multiplies in floats; for
\* the populations used here the float product has the same ceiling as the
\* exact one.
Ceil(n, d) == (n + d - 1) \div d

\* a slip: a kind the table lacks given the ratio 1 instead of 0
calculate_requirements_default_one(pop, kind) ==
    LET standard == Get(GOVERNMENT_STANDARDS, kind, EmptyDict)
        ratio == Get(standard, "ratio", [n |-> 1, d |-> 1])
    IN  Ceil(pop * ratio.n, ratio.d)

calculate_requirements(pop, kind) ==
    LET standard == Get(GOVERNMENT_STANDARDS, kind, EmptyDict)
        ratio == Get(standard, "ratio", [n |-> 0, d |-> 1])
    IN  Ceil(pop * ratio.n, ratio.d)

----------------------------------------------------------------------------
(* Frames.  A frame is [columns |-> set of names, rows |-> sequence of      *)
(* rows], a row being a function from the columns to values.               *)

\* a finite coordinate in hundredths of a degree (inputs have e >= -2)
Centi(v) == IF v.e >= 0 THEN v.m * Pow10(v.e + 2)
            ELSE IF v.e = -1 THEN v.m * 10 ELSE v.m

\* a finite whole number as an integer
IntOf(v) == v.m * Pow10(v.e)

RECURSIVE SumCenti(_, _)
SumCenti(rows, col) ==
    IF rows = <<>> THEN 0 ELSE Centi(Head(rows)[col]) + SumCenti(Tail(rows), col)

\* Series.sum(): skipna is the default, a missing value adds nothing
RECURSIVE SeriesSum(_, _)
SeriesSum(rows, col) ==
    IF rows = <<>> THEN 0
    ELSE (IF IsNa(Head(rows)[col]) THEN 0 ELSE IntOf(Head(rows)[col]))
         + SeriesSum(Tail(rows), col)

AllFinite(rows) ==
    \A i \in 1..Len(rows) :
        IsFinite(rows[i]["latitude"]) /\ IsFinite(rows[i]["longitude"])

----------------------------------------------------------------------------
(* calculate_service_coverage *)

\* geodesic(center, facility).km <= radius_km, the centre being the mean of
\* the n rows: sumLat / n, sumLon / n in hundredths of a degree.  The
\* distance is taken on the sphere near the equator, KmPerDegree km to the
\* degree both ways, and compared squared and scaled by 100 * n so that it
\* stays in the integers:  dist <= r  iff  (100 n dist)^2 <= (100 n r)^2.
KmPerDegree == 111

WithinRadius(row, sumLat, sumLon, n, radius_km) ==
    LET dy == Abs(n * Centi(row["latitude"]) - sumLat) * KmPerDegree
        dx == Abs(n * Centi(row["longitude"]) - sumLon) * KmPerDegree
        r == 100 * n * radius_km
    IN  dy <= r /\ dx <= r /\ dy * dy + dx * dx <= r * r

\* geodesic on a coordinate that is not finite: the library either rejects
\* the point (ValueError) or yields a distance that compares False
GeodesicBehaviours == {"raise", "nan"}

\* a slip: the factor 100 left out
PercentUnscaled(covered, n) == [num |-> covered, den |-> n]

\* (covered / len(facilities)) * 100
Percent(covered, n) == [num |-> covered * 100, den |-> n]

\* covered / len(facilities) * 100 as the fraction num / den; 0.0 is 0 / 1
calculate_service_coverage(frame, sumLat, sumLon, radius_km, finite) ==
    LET rows == frame.rows
        n == Len(rows)
    IN  IF n = 0 THEN [num |-> 0, den |-> 1]
        ELSE LET covered ==
                   IF finite
                   THEN Cardinality({i \in 1..n :
                            WithinRadius(rows[i], sumLat, sumLon, n, radius_km)})
                   ELSE 0
             IN  Percent(covered, n)

----------------------------------------------------------------------------
(* analyze_amenities *)

IntV(i) == [k |-> "int", v |-> i]
Raise(exc) == [k |-> "raised", exc |-> exc]

\* a slip: the shortfall not clamped at 0
GapUnclamped(required, actual) == required - actual

\* gap = max(0, required_count - actual_count)
Gap(required, actual) == Max(0, required - actual)

\* a slip: the area shortfall not clamped at 0
AreaGapUnclamped(required_area, total_area) == required_area - total_area

\* area_gap = max(0, required_area - total_area)
AreaGap(required_area, total_area) == Max(0, required_area - total_area)

\* lib: what geodesic does with a coordinate that is not finite
analyze_amenities(pop, frame, kind, lib) ==
    LET standard == Get(GOVERNMENT_STANDARDS, kind, EmptyDict)
        rows == frame.rows
        actual_count == Len(rows)
        required_count == calculate_requirements(pop, kind)
        gap == Gap(required_count, actual_count)
        finite == AllFinite(rows)
        coverage_radius == Get(standard, "service_radius_km", 5)
        coverage_pct ==
            IF actual_count > 0
            THEN calculate_service_coverage(frame,
                     IF finite THEN SumCenti(rows, "latitude") ELSE 0,
                     IF finite THEN SumCenti(rows, "longitude") ELSE 0,
                     coverage_radius, finite)
            ELSE [num |-> 0, den |-> 1]
        parksArea == kind = "parks" /\ "area_sqm" \in frame.columns
        total_area == SeriesSum(rows, "area_sqm")
        required_area == pop * Get(standard, "area_standard", 0)
        area_gap == IF parksArea THEN AreaGap(required_area, total_area) ELSE 0
    IN  IF actual_count > 0
           /\ ~ {"latitude", "longitude"} \subseteq frame.columns
        THEN Raise("KeyError")
        ELSE IF actual_count > 0 /\ ~finite /\ lib = "raise"
        THEN Raise("ValueError")
        ELSE IF kind = "parks" /\ ~parksArea
        THEN Raise("UnboundLocalError")   \* total_area was never assigned
        ELSE [ k |-> "result",
               actual |-> actual_count,
               required |-> required_count,
               gap |-> gap,
               sufficient |-> actual_count >= required_count,
               coverage_pct |-> coverage_pct,
               area_gap |-> area_gap,
               total_area |-> IF kind = "parks" THEN IntV(total_area) ELSE None,
               required_area |->
                   IF kind = "parks" THEN IntV(required_area) ELSE None ]

----------------------------------------------------------------------------
(* SpecAnalyze: analyze_amenities applied to a population, a kind and a    *)
(* frame of facility records (finite coordinates in geographic range)      *)

RECURSIVE SeqsUpTo(_, _)
SeqsUpTo(S, n) ==
    IF n = 0 THEN {<<>>}
    ELSE LET shorter == SeqsUpTo(S, n - 1)
         IN  shorter \cup {Append(q, x) : q \in shorter, x \in S}

Populations == {100, 1000, 10000}

\* "libraries" is a kind the table does not register
AnalyzeKinds == RegisteredKinds \cup {"libraries"}

\* 0 and 0.1 degree: 11.1 km apart
FacilityCoords == {Num(0, 0), Num(1, -1)}
AreaValues == {NaN, Num(4000, 0), Num(8000, 0)}

CellValues(col) ==
    IF col \in {"latitude", "longitude"} THEN FacilityCoords ELSE AreaValues

RowsOver(columns) ==
    {r \in [columns -> FacilityCoords \cup AreaValues] :
        \A c \in columns : r[c] \in CellValues(c)}

FramesOver(columns) ==
    {[columns |-> columns, rows |-> rs] : rs \in SeqsUpTo(RowsOver(columns), MaxRows)}

CleanFrames ==
    FramesOver({"latitude", "longitude"})
        \cup FramesOver({"latitude", "longitude", "area_sqm"})

InitAnalyze ==
    /\ pc = "call"
    /\ population \in Populations
    /\ facility_type \in AnalyzeKinds
    /\ facilities \in CleanFrames
    /\ analysis = NoResult
    /\ coord = None
    /\ cleaned = NotYet
    /\ upload = NoUpload
    /\ shown = <<>>
    /\ raised = "none"

AnalyzeCall ==
    /\ pc = "call"
    /\ \E lib \in GeodesicBehaviours :
          analysis' = analyze_amenities(population, facilities, facility_type, lib)
    /\ pc' = "ret"
    /\ UNCHANGED <<coord, cleaned, population, facility_type, upload,
                   facilities, shown, raised>>

NextAnalyze == AnalyzeCall

SpecAnalyze == InitAnalyze /\ [][NextAnalyze]_vars

----------------------------------------------------------------------------
(* standardize_facility_data *)

TypeHeader == "Type of facility- public park/ public garden/ public open space"

\* column_map, and DataFrame.rename leaving every other header as it is
column_map(h) ==
    CASE h = "Name" -> "name"
      [] h = "Name of Facility" -> "name"
      [] h = "Name of Police Station" -> "name"
      [] h = "Name of facility" -> "name"
      [] h = "Latitude" -> "latitude"
      [] h = "Location_latitude" -> "latitude"
      [] h = "Longitude" -> "longitude"
      [] h = "Location_longitude" -> "longitude"
      [] h = "Area (in square meters)" -> "area_sqm"
      [] OTHER -> h

\* df.rename(columns=...): dup holds the names that two headers were mapped
\* to (a frame may carry a label twice); a row keeps one cell per name
Rename(df) ==
    LET sources(c) == {h \in df.columns : column_map(h) = c}
        cols == {column_map(h) : h \in df.columns}
    IN  [ columns |-> cols,
          dup |-> {c \in cols : Cardinality(sources(c)) > 1},
          rows |-> [i \in 1..Len(df.rows) |->
                      [c \in cols |-> df.rows[i][CHOOSE h \in sources(c) : TRUE]]] ]

\* df['type'] = df[TypeHeader]
CopyType(df) ==
    [ columns |-> df.columns \cup {"type"},
      dup |-> df.dup,
      rows |-> [i \in 1..Len(df.rows) |->
                  [c \in df.columns \cup {"type"} |->
                      IF c = "type" THEN df.rows[i][TypeHeader] ELSE df.rows[i][c]]] ]

\* df[col] = df[col].apply(clean_coordinate)
ApplyClean(df, col) ==
    [df EXCEPT !.rows = [i \in 1..Len(df.rows) |->
        [df.rows[i] EXCEPT ![col] = clean_coordinate(df.rows[i][col])]]]

\* df.dropna(subset=['latitude', 'longitude']) on the rows
RECURSIVE DropNaRows(_)
DropNaRows(rows) ==
    IF rows = <<>> THEN <<>>
    ELSE (IF ~IsNa(Head(rows)["latitude"]) /\ ~IsNa(Head(rows)["longitude"])
          THEN <<Head(rows)>> ELSE <<>>)
         \o DropNaRows(Tail(rows))

RECURSIVE DropNaLatitudeRows(_)
DropNaLatitudeRows(rows) ==
    IF rows = <<>> THEN <<>>
    ELSE (IF ~IsNa(Head(rows)["latitude"]) THEN <<Head(rows)>> ELSE <<>>)
         \o DropNaLatitudeRows(Tail(rows))

\* a slip: subset=['latitude'] only
DropNaLatitudeOnly(df) == [df EXCEPT !.rows = DropNaLatitudeRows(df.rows)]

DropNa(df) == [df EXCEPT !.rows = DropNaRows(df.rows)]

\* df[col] where col is not a label: KeyError.  df[col] where the label
\* occurs twice is a DataFrame, whose apply hands clean_coordinate a Series:
\* "if pd.isna(coord)" is then a ValueError (ambiguous truth value).
ColumnError(df, col) ==
    IF col \notin df.columns THEN "KeyError"
    ELSE IF col \in df.dup THEN "ValueError"
    ELSE "none"

Ok(frame) == [k |-> "ok", frame |-> frame]

\* a slip: a missing coordinate column answered with an empty frame
standardize_missing_as_empty(df, kind) ==
    LET renamed == Rename(df) IN
    IF ~ {"latitude", "longitude"} \subseteq renamed.columns
    THEN Ok([columns |-> {"latitude", "longitude"}, rows |-> <<>>])
    ELSE IF ColumnError(renamed, "latitude") # "none"
    THEN Raise(ColumnError(renamed, "latitude"))
    ELSE LET kept == DropNa(ApplyClean(ApplyClean(renamed, "latitude"),
                                       "longitude"))
         IN  Ok([columns |-> kept.columns, rows |-> kept.rows])

standardize_facility_data(df, kind) ==
    LET renamed == Rename(df)
        typed == IF kind = "parks" /\ TypeHeader \in renamed.columns
                 THEN CopyType(renamed) ELSE renamed
    IN  IF ColumnError(typed, "latitude") # "none"
        THEN Raise(ColumnError(typed, "latitude"))
        ELSE IF ColumnError(typed, "longitude") # "none"
        THEN Raise(ColumnError(typed, "longitude"))
        ELSE LET kept == DropNa(ApplyClean(ApplyClean(typed, "latitude"),
                                           "longitude"))
             IN  Ok([columns |-> kept.columns, rows |-> kept.rows])

----------------------------------------------------------------------------
(* main: one session, run after run *)

\* the messages of main
NoValidWarning ==
    [kind |-> "warning",
     text |-> "No valid facility locations found in the uploaded file."]
ProcessingError(exc) == [kind |-> "error", text |-> "Error processing data", exc |-> exc]
SufficientReport == [kind |-> "success", text |-> "sufficient"]
DeficientReport(gap) == [kind |-> "error", text |-> "deficient", gap |-> gap]
CoverageWarning == [kind |-> "warning", text |-> "coverage below 75%"]
ParkAreaInfo == [kind |-> "info", text |-> "park area"]

\* lines 372-387: the detailed report
Report(a, kind) ==
    <<IF a.sufficient THEN SufficientReport ELSE DeficientReport(a.gap)>>
    \o (IF a.coverage_pct.num < 75 * a.coverage_pct.den
        THEN <<CoverageWarning>> ELSE <<>>)
    \o (IF kind = "parks" THEN <<ParkAreaInfo>> ELSE <<>>)

\* the exceptions the steps of a run raise; each is a subclass of Exception
Exceptions == {"KeyError", "ValueError", "UnboundLocalError", "ParserError",
               "OSError"}

\* a slip: "except ValueError as e"
CaughtValueErrorOnly(exc) == exc = "ValueError"

\* "except Exception as e" catches exc
Caught(exc) == exc \in Exceptions

\* an exception leaving the try block: caught, shown and the run is over;
\* one that is not caught ends the script with the exception
Handle(exc) ==
    /\ raised' = exc
    /\ IF Caught(exc)
       THEN pc' = "done" /\ shown' = <<ProcessingError(exc)>>
       ELSE pc' = "crashed" /\ shown' = shown

\* the uploads: a parsed table, or a file pd.read_csv rejects
Unreadable == [k |-> "unreadable"]

HeaderSets ==
    { {"Latitude", "Longitude"},
      {"Location_latitude", "Location_longitude", "Area (in square meters)"},
      {"lat", "lon"},
      {"Latitude"},
      {"Latitude", "Location_latitude", "Longitude"},
      {"Latitude", "Longitude", TypeHeader} }

TextInf == <<"i", "n", "f">>
TextInvalid == <<"i", "n", "v", "a", "l", "i", "d">>

RawValues(h) ==
    CASE h = "Latitude" ->
             {Num(0, 0), Num(1, -1), Str(TextInf), Str(TextInvalid)}
      [] h = "Location_latitude" -> {Num(1, -1), Str(TextInvalid)}
      [] h = "Longitude" -> {Num(0, 0), NaN}
      [] h = "Location_longitude" -> {Num(0, 0)}
      [] h = "Area (in square meters)" -> {NaN, Num(4000, 0)}
      [] OTHER -> {Str(<<"x">>)}

RawRows(headers) ==
    {r \in [headers -> UNION {RawValues(h) : h \in headers}] :
        \A h \in headers : r[h] \in RawValues(h)}

\* a label mapped to twice is modelled for tables that have a row
TablesOver(hs) ==
    {[k |-> "csv", columns |-> hs, rows |-> rs] :
        rs \in SeqsUpTo(RawRows(hs), MaxRows)}

Tables ==
    {t \in UNION {TablesOver(hs) : hs \in HeaderSets} :
        Rename(t).dup = {} \/ Len(t.rows) > 0}

Uploads == Tables \cup {Unreadable}

\* st.number_input(min_value=100, value=10000, step=100)
SessionPopulations == {1000, 10000}

Init ==
    /\ pc = "idle"
    /\ population = 10000
    /\ facility_type = "schools"
    /\ upload = NoUpload
    /\ facilities = NoFrame
    /\ analysis = NoResult
    /\ shown = <<>>
    /\ raised = "none"
    /\ coord = None
    /\ cleaned = NotYet

\* the script runs with the sidebar's values and an uploaded file
StartRun ==
    /\ pc = "idle"
    /\ population' \in SessionPopulations
    /\ facility_type' \in RegisteredKinds
    /\ upload' \in Uploads
    /\ pc' = "load"
    /\ UNCHANGED <<coord, cleaned, facilities, analysis, shown, raised>>

\* the script runs with no file uploaded: "if uploaded_file" is false
RunWithoutUpload ==
    /\ pc = "idle"
    /\ population' \in SessionPopulations
    /\ facility_type' \in RegisteredKinds
    /\ pc' = "done"
    /\ UNCHANGED <<coord, cleaned, upload, facilities, analysis, shown, raised>>

\* df = pd.read_csv(uploaded_file)
LoadCsv ==
    /\ pc = "load"
    /\ IF upload = Unreadable
       THEN Handle("ParserError")
       ELSE pc' = "standardize" /\ UNCHANGED <<shown, raised>>
    /\ UNCHANGED <<coord, cleaned, population, facility_type, upload,
                   facilities, analysis>>

\* facilities = standardize_facility_data(df, facility_type), and the
\* empty check of lines 292-294
Standardize ==
    /\ pc = "standardize"
    /\ LET r == standardize_facility_data(upload, facility_type) IN
       IF r.k = "raised"
       THEN Handle(r.exc) /\ UNCHANGED facilities
       ELSE /\ facilities' = r.frame
            /\ IF Len(r.frame.rows) = 0
               THEN pc' = "done" /\ shown' = <<NoValidWarning>>
               ELSE pc' = "analyze" /\ shown' = shown
            /\ UNCHANGED raised
    /\ UNCHANGED <<coord, cleaned, population, facility_type, upload, analysis>>

\* analysis = analyze_amenities(population, facilities, facility_type)
Analyze ==
    /\ pc = "analyze"
    /\ \E lib \in GeodesicBehaviours :
         LET r == analyze_amenities(population, facilities, facility_type, lib) IN
         IF r.k = "raised"
         THEN Handle(r.exc) /\ UNCHANGED analysis
         ELSE analysis' = r /\ pc' = "render" /\ UNCHANGED <<shown, raised>>
    /\ UNCHANGED <<coord, cleaned, population, facility_type, upload, facilities>>

\* lines 298-387: metrics, map, chart and report.  Writing the map file for
\* the download link (get_map_download_link) may fail with OSError.
Render ==
    /\ pc = "render"
    /\ \/ /\ shown' = Report(analysis, facility_type)
          /\ pc' = "done"
          /\ UNCHANGED raised
       \/ Handle("OSError")
    /\ UNCHANGED <<coord, cleaned, population, facility_type, upload,
                   facilities, analysis>>

\* the next interaction reruns the script from the top: nothing of the last
\* run is kept
Rerun ==
    /\ pc = "done"
    /\ pc' = "idle"
    /\ population' = 10000
    /\ facility_type' = "schools"
    /\ upload' = NoUpload
    /\ facilities' = NoFrame
    /\ analysis' = NoResult
    /\ shown' = <<>>
    /\ raised' = "none"
    /\ UNCHANGED <<coord, cleaned>>

Next == StartRun \/ RunWithoutUpload \/ LoadCsv \/ Standardize \/ Analyze
        \/ Render \/ Rerun

Spec == Init /\ [][Next]_vars

----------------------------------------------------------------------------
(* The claims *)

Returned == pc = "ret" /\ analysis.k = "result"

\* C1: the result of analyze_amenities has actual = the number of facility
\* records, gap = max(0, required - actual), hence gap >= 0, and sufficient
\* is true exactly when gap is 0.
C1_GapAndSufficiency ==
    Returned =>
        /\ analysis.actual = Len(facilities.rows)
        /\ analysis.gap = (IF analysis.required > analysis.actual
                           THEN analysis.required - analysis.actual ELSE 0)
        /\ analysis.gap >= 0
        /\ (analysis.sufficient <=> analysis.gap = 0)

\* schools for 10000 people: 11 required, a shortfall is reported
C1_Witness ==
    /\ Returned /\ facility_type = "schools" /\ population = 10000
    /\ analysis.required = 11 /\ analysis.actual = 2 /\ analysis.gap = 9
    /\ ~analysis.sufficient

\* the service radius analyze_amenities uses for a kind
ServiceRadius(kind) ==
    IF kind \in RegisteredKinds THEN GOVERNMENT_STANDARDS[kind].service_radius_km
    ELSE 5

\* the facilities within the service radius of the centroid of all of them
NearCentroid ==
    LET rows == facilities.rows IN
    {i \in 1..Len(rows) :
        WithinRadius(rows[i], SumCenti(rows, "latitude"),
                     SumCenti(rows, "longitude"), Len(rows),
                     ServiceRadius(facility_type))}

CoverageInRange ==
    /\ analysis.coverage_pct.den > 0
    /\ 0 <= analysis.coverage_pct.num
    /\ analysis.coverage_pct.num <= 100 * analysis.coverage_pct.den

CoverageIs(p) == analysis.coverage_pct.num = p * analysis.coverage_pct.den

AllNearCentroid ==
    Len(facilities.rows) > 0 /\ NearCentroid = 1..Len(facilities.rows)

\* C2 as claimed: the coverage percentage is in [0,100], is 0 exactly when
\* there is no facility, and is 100 when every facility is within the
\* service radius of the centroid.
C2_AsClaimed ==
    Returned =>
        /\ CoverageInRange
        /\ (CoverageIs(0) <=> Len(facilities.rows) = 0)
        /\ (AllNearCentroid => CoverageIs(100))

\* C2 amended: the coverage percentage is in [0,100]; it is 0 when there is
\* no facility and, for a non-empty set, exactly when no facility is within
\* the service radius of the centroid; it is 100 when every facility is.
C2_Coverage ==
    Returned =>
        /\ CoverageInRange
        /\ (Len(facilities.rows) = 0 => CoverageIs(0))
        /\ (Len(facilities.rows) > 0 => (CoverageIs(0) <=> NearCentroid = {}))
        /\ (AllNearCentroid => CoverageIs(100))

\* two schools 11.1 km apart, each 5.55 km from their centroid: coverage 0
C2_Witness ==
    /\ Returned /\ facility_type = "schools" /\ Len(facilities.rows) = 2
    /\ NearCentroid = {} /\ CoverageIs(0)

\* C7: for a kind outside the registered ones analyze_amenities returns a
\* result with required = 0, gap = 0 and sufficient = true, whatever the
\* population and the number of facilities.
C7_UnknownKind ==
    (pc = "ret" /\ facility_type \notin RegisteredKinds) =>
        /\ analysis.k = "result"
        /\ analysis.required = 0
        /\ analysis.gap = 0
        /\ analysis.sufficient

C7_Witness ==
    /\ Returned /\ facility_type = "libraries" /\ population = 10000
    /\ Len(facilities.rows) = 2 /\ analysis.required = 0 /\ analysis.sufficient

\* the area values of the rows added up, a missing one counting 0
RECURSIVE AreaTotal(_, _)
AreaTotal(rows, i) ==
    IF i = 0 THEN 0
    ELSE AreaTotal(rows, i - 1)
         + (IF rows[i]["area_sqm"].k = "num" THEN IntOf(rows[i]["area_sqm"]) ELSE 0)

\* C8: for parks with an area column, total_area is the sum of the area
\* values (missing as 0), required_area is population * 10 and area_gap is
\* max(0, required_area - total_area), never negative; 1000 people and
\* 8000 sqm give 10000 required and a gap of 2000.
C8_ParkArea ==
    (pc = "ret" /\ facility_type = "parks" /\ "area_sqm" \in facilities.columns) =>
        LET total == AreaTotal(facilities.rows, Len(facilities.rows))
            required == population * 10
        IN  /\ analysis.k = "result"
            /\ analysis.total_area = IntV(total)
            /\ analysis.required_area = IntV(required)
            /\ analysis.area_gap = (IF required > total THEN required - total ELSE 0)
            /\ analysis.area_gap >= 0
            /\ (population = 1000 /\ total = 8000 =>
                    analysis.required_area = IntV(10000) /\ analysis.area_gap = 2000)

\* 1000 people, two parks of 4000 sqm
C8_Witness ==
    /\ Returned /\ facility_type = "parks" /\ population = 1000
    /\ Len(facilities.rows) = 2
    /\ \A i \in 1..2 : facilities.rows[i]["area_sqm"] = Num(4000, 0)
    /\ analysis.total_area = IntV(8000) /\ analysis.area_gap = 2000

\* C10: analyze_amenities returns a result for every registered kind, every
\* positive population and every non-empty cleaned facility set, a parks
\* set without an area column included.
C10_AlwaysReturns ==
    (pc = "ret" /\ facility_type \in RegisteredKinds /\ population > 0
       /\ Len(facilities.rows) > 0) => analysis.k = "result"

\* C5: clean_coordinate returns a numeric value unchanged, 12.34 for the
\* text 12.34(degree sign)N, and None for the text "invalid".
C5_CleanExamples ==
    pc = "ret" =>
        /\ (coord \in NumericInputs => cleaned = coord)
        /\ (coord = Str(<<"1", "2", ".", "3", "4", "U00B0", "N">>)
                => cleaned = Num(1234, -2))
        /\ (coord = Str(TextInvalid) => cleaned = None)

\* C6: every row of the frame standardize_facility_data returned has a
\* finite latitude and a finite longitude.
C6_FiniteCoordinates ==
    \A i \in 1..Len(facilities.rows) :
        /\ IsFinite(facilities.rows[i]["latitude"])
        /\ IsFinite(facilities.rows[i]["longitude"])

\* the headers of the upload that column_map maps to col
Sources(col) == {h \in upload.columns : column_map(h) = col}

NoCoordinateColumns ==
    upload.k = "csv" /\ Sources("latitude") = {} /\ Sources("longitude") = {}

\* C3: an upload without latitude and longitude columns after the header
\* mapping ends the run with the error message; analyze_amenities is never
\* reached and no result exists, nor is the empty-set warning shown.
C3_MissingColumns ==
    NoCoordinateColumns =>
        /\ analysis = NoResult
        /\ pc \in {"load", "standardize", "done"}
        /\ (pc = "done" => shown = <<ProcessingError("KeyError")>>)

C3_Witness ==
    /\ NoCoordinateColumns /\ pc = "done" /\ Len(upload.rows) = 2
    /\ shown = <<ProcessingError("KeyError")>> /\ analysis = NoResult

FailsToParse(v) == IsNa(clean_coordinate(v))

\* one latitude and one longitude column, at least one row, and in every row
\* the latitude or the longitude does not parse
AllRowsUnparseable ==
    /\ upload.k = "csv"
    /\ Cardinality(Sources("latitude")) = 1
    /\ Cardinality(Sources("longitude")) = 1
    /\ Len(upload.rows) > 0
    /\ \A i \in 1..Len(upload.rows) :
          \/ \A h \in Sources("latitude") : FailsToParse(upload.rows[i][h])
          \/ \A h \in Sources("longitude") : FailsToParse(upload.rows[i][h])

C9_FailuresCaught ==
    /\ pc # "crashed"
    /\ (raised # "none" => pc = "done" /\ shown = <<ProcessingError(raised)>>)
    /\ (pc = "done" => ENABLED Rerun)
    /\ (pc = "idle" => ENABLED StartRun)

\* a run whose rendering failed after the analysis
C9_Witness ==
    pc = "done" /\ raised = "OSError" /\ analysis.k = "result"

====
